---- MODULE Spec2Model ----
(***************************************************************************)
(* A model of src/main.py: the ChessBoard class, its 8x8 grid of optional  *)
(* Piece objects, the slope/distance geometry, the per-piece legality      *)
(* predicates, make_move and is_path_clear.                                *)
(*                                                                         *)
(* A coordinate is a pair <<row, col>>.  A Piece is a record with the      *)
(* three dataclass fields and an `id` that stands for the identity of the  *)
(* Python object (a cell holds a reference to a Piece).  Calls return one  *)
(* of the strings "True", "False" or the name of the exception raised.     *)
(***************************************************************************)
EXTENDS Integers, FiniteSets, Sequences, TLC

VARIABLES board, current_turn, op, start_pos, end_pos, ret, reads, nsucc

vars == <<board, current_turn, op, start_pos, end_pos, ret, reads, nsucc>>

-----------------------------------------------------------------------------
(* Bounds of the model                                                     *)

\* make_move is called while fewer than MaxMoves calls have returned True
MaxMoves == 2
\* the calls of Spec take their coordinates from columns 0..MaxCol
MaxCol == 1
\* the set-up positions and calls of SpecBoards use rows and columns 0..MaxPos
MaxPos == 1
\* is_path_clear is followed for at most MaxScan loop iterations
MaxScan == 16

-----------------------------------------------------------------------------
(* Data                                                                    *)

N == 8

PAWN == "PAWN"
KNIGHT == "KNIGHT"
BISHOP == "BISHOP"
ROOK == "ROOK"
QUEEN == "QUEEN"
KING == "KING"

PieceType == {PAWN, KNIGHT, BISHOP, ROOK, QUEEN, KING}

WHITE == "WHITE"
BLACK == "BLACK"

Color == {WHITE, BLACK}

None == [none |-> TRUE]

Piece(piece_type, color, has_moved, id) ==
    [piece_type |-> piece_type, color |-> color, has_moved |-> has_moved, id |-> id]

Idx == 0 .. (N - 1)

Coord == Idx \X Idx

Abs(x) == IF x < 0 THEN -x ELSE x

Max(a, b) == IF a >= b THEN a ELSE b

RECURSIVE Gcd(_, _)
Gcd(a, b) == IF b = 0 THEN a ELSE Gcd(b, a % b)

\* a bool of the program as the outcome of a call
Bool(b) == IF b THEN "True" ELSE "False"

-----------------------------------------------------------------------------
(* Construction                                                            *)

piece_order == <<ROOK, KNIGHT, BISHOP, QUEEN, KING, BISHOP, KNIGHT, ROOK>>

\* the object created for the cell (row, col) by _initialize_board
NewId(row, col) == row * N + col

_initialize_board ==
    [row \in Idx |-> [col \in Idx |->
        IF row = 1 THEN Piece(PAWN, WHITE, FALSE, NewId(row, col))
        ELSE IF row = 6 THEN Piece(PAWN, BLACK, FALSE, NewId(row, col))
        ELSE IF row = 0 THEN Piece(piece_order[col + 1], WHITE, FALSE, NewId(row, col))
        ELSE IF row = 7 THEN Piece(piece_order[col + 1], BLACK, FALSE, NewId(row, col))
        ELSE None]]

-----------------------------------------------------------------------------
(* Geometry.  A slope is the float the division yields: Inf, or the value  *)
(* of the quotient, kept as the fraction in lowest terms with a positive   *)
(* denominator (two quotients are equal floats iff these are equal).       *)

Inf == <<1, 0>>

\* the quotient of // where / is meant
FloorQuotient(num, den) ==
    LET sgn == IF den < 0 THEN -1 ELSE 1
    IN <<(sgn * num) \div (sgn * den), 1>>

Quotient(num, den) ==
    LET g == Gcd(Abs(num), Abs(den))
        sgn == IF den < 0 THEN -1 ELSE 1
    IN <<sgn * (num \div g), sgn * (den \div g)>>

SlopeAbs(slope) == <<Abs(slope[1]), slope[2]>>

SlopeOfInt(k) == <<k, 1>>

calculate_slope(start, end) ==
    IF end[2] - start[2] = 0
    THEN Inf
    ELSE Quotient(end[1] - start[1], end[2] - start[2])

calculate_distance(start, end) ==
    Max(Abs(end[1] - start[1]), Abs(end[2] - start[2]))

-----------------------------------------------------------------------------
(* is_path_clear.  board[i][j] with a Python list: an index in -8..-1      *)
(* counts from the end, an index outside -8..7 raises IndexError.          *)

IndexOk(i) == -N <= i /\ i < N

ListIndex(i) == IF i < 0 THEN i + N ELSE i

\* a step that forgets the sign of the difference
StepForward(from, to) == IF from = to THEN 0 ELSE 1

Step(from, to) == IF from = to THEN 0 ELSE (to - from) \div Abs(to - from)

\* the while loop of lines 185-189 from (current_row, current_col); `seen` are
\* the index pairs read so far
RECURSIVE PathLoop(_, _, _, _, _, _, _, _)
PathLoop(b, current_row, current_col, row_step, col_step, end, seen, fuel) ==
    IF <<current_row, current_col>> = end THEN [ret |-> "True", reads |-> seen]
    ELSE IF fuel = 0 THEN [ret |-> "Running", reads |-> seen]
    ELSE IF ~IndexOk(current_row) \/ ~IndexOk(current_col)
    THEN [ret |-> "IndexError", reads |-> seen]
    ELSE LET seen1 == seen \cup {<<current_row, current_col>>}
         IN IF b[ListIndex(current_row)][ListIndex(current_col)] # None
            THEN [ret |-> "False", reads |-> seen1]
            ELSE PathLoop(b, current_row + row_step, current_col + col_step,
                          row_step, col_step, end, seen1, fuel - 1)

is_path_clear(b, start, end) ==
    LET row_step == Step(start[1], end[1])
        col_step == Step(start[2], end[2])
    IN PathLoop(b, start[1] + row_step, start[2] + col_step,
                row_step, col_step, end, {}, MaxScan)

-----------------------------------------------------------------------------
(* Legality predicates                                                     *)

_is_within_bounds(pos) ==
    0 <= pos[1] /\ pos[1] < N /\ 0 <= pos[2] /\ pos[2] < N

_is_valid_bishop_move(slope) == SlopeAbs(slope) = SlopeOfInt(1)

_is_valid_rook_move(slope) == slope = SlopeOfInt(0) \/ slope = Inf

_is_valid_queen_move(slope) ==
    slope = SlopeOfInt(0) \/ slope = Inf \/ SlopeAbs(slope) = SlopeOfInt(1)

_is_valid_king_move(slope, distance) ==
    (slope = SlopeOfInt(0) \/ slope = Inf \/ SlopeAbs(slope) = SlopeOfInt(1))
    /\ distance = 1

_is_valid_knight_move(start, end) ==
    LET row_diff == Abs(end[1] - start[1])
        col_diff == Abs(end[2] - start[2])
        sorted == IF row_diff <= col_diff THEN <<row_diff, col_diff>>
                  ELSE <<col_diff, row_diff>>
    IN sorted = <<1, 2>>

\* the names bound where _is_valid_pawn_move reads `piece` (line 133): its
\* parameters and locals, and the module's globals; `piece` is none of them
PawnScope == {"self", "start_pos", "end_pos", "color", "start_row", "start_col",
              "end_row", "end_col", "direction", "middle_row",
              "Enum", "List", "Tuple", "Optional", "dataclass",
              "PieceType", "Color", "Piece", "ChessBoard"}

\* a pawn whose diagonal step does not look at the target cell
_is_valid_pawn_move_any_diagonal(b, start, end, color) ==
    LET direction == IF color = BLACK THEN 1 ELSE -1
    IN IF start[2] = end[2]
       THEN IF end[1] - start[1] = direction
            THEN Bool(b[end[1]][end[2]] = None)
            ELSE "NameError"
       ELSE IF Abs(end[2] - start[2]) = 1 /\ end[1] - start[1] = direction
            THEN "True"
            ELSE "False"

_is_valid_pawn_move(b, start, end, color) ==
    LET direction == IF color = BLACK THEN 1 ELSE -1
        piece == b[start[1]][start[2]]
    IN IF start[2] = end[2]
       THEN IF end[1] - start[1] = direction
            THEN Bool(b[end[1]][end[2]] = None)
            ELSE IF "piece" \notin PawnScope
            THEN "NameError"
            ELSE IF ~piece.has_moved /\ end[1] - start[1] = 2 * direction
            THEN LET middle_row == start[1] + direction
                 IN Bool(b[middle_row][start[2]] = None /\ b[end[1]][end[2]] = None)
            ELSE "False"
       ELSE IF Abs(end[2] - start[2]) = 1 /\ end[1] - start[1] = direction
            THEN Bool(b[end[1]][end[2]] # None)
            ELSE "False"

\* an own-piece test with the comparison turned round
OwnPieceInverted(target, piece) == target # None /\ target.color # piece.color

\* line 75: the target cell holds a piece of the mover's colour
OwnPiece(target, piece) == target # None /\ target.color = piece.color

\* the dispatch of lines 81-94
Dispatch(b, start, end, piece, slope, distance) ==
    IF piece.piece_type = BISHOP THEN Bool(_is_valid_bishop_move(slope))
    ELSE IF piece.piece_type = ROOK THEN Bool(_is_valid_rook_move(slope))
    ELSE IF piece.piece_type = QUEEN THEN Bool(_is_valid_queen_move(slope))
    ELSE IF piece.piece_type = KNIGHT THEN Bool(_is_valid_knight_move(start, end))
    ELSE IF piece.piece_type = KING THEN Bool(_is_valid_king_move(slope, distance))
    ELSE IF piece.piece_type = PAWN THEN _is_valid_pawn_move(b, start, end, piece.color)
    ELSE "False"

\* an is_valid_move that asks is_path_clear for bishop, rook and queen
is_valid_move_path_checked(b, start, end) ==
    IF ~_is_within_bounds(end) THEN "False"
    ELSE LET piece == b[start[1]][start[2]]
             target == b[end[1]][end[2]]
         IN IF piece = None THEN "False"
            ELSE IF OwnPiece(target, piece) THEN "False"
            ELSE LET verdict == Dispatch(b, start, end, piece,
                                         calculate_slope(start, end),
                                         calculate_distance(start, end))
                 IN IF verdict = "True" /\ piece.piece_type \in {BISHOP, ROOK, QUEEN}
                    THEN is_path_clear(b, start, end).ret
                    ELSE verdict

is_valid_move(b, start, end) ==
    IF ~_is_within_bounds(end) THEN "False"
    ELSE LET piece == b[start[1]][start[2]]
             target == b[end[1]][end[2]]
         IN IF piece = None THEN "False"
            ELSE IF OwnPiece(target, piece) THEN "False"
            ELSE Dispatch(b, start, end, piece, calculate_slope(start, end),
                          calculate_distance(start, end))

-----------------------------------------------------------------------------
(* make_move                                                               *)

\* piece.has_moved = True: the object is changed, so every cell that refers
\* to it sees the flag
SetHasMoved(b, id) ==
    [row \in Idx |-> [col \in Idx |->
        IF b[row][col] # None /\ b[row][col].id = id
        THEN [b[row][col] EXCEPT !.has_moved = TRUE]
        ELSE b[row][col]]]

\* a move that leaves the reference in the start cell
MovePieceCopy(b, start, end) ==
    LET piece == b[start[1]][start[2]]
        b1 == [b EXCEPT ![end[1]][end[2]] = piece]
    IN SetHasMoved(b1, piece.id)

\* lines 165-168
MovePiece(b, start, end) ==
    LET piece == b[start[1]][start[2]]
        b1 == [b EXCEPT ![end[1]][end[2]] = piece]
        b2 == [b1 EXCEPT ![start[1]][start[2]] = None]
    IN SetHasMoved(b2, piece.id)

\* a turn that follows the colour WHITE only
SwitchTurnOnce(turn) == IF turn = WHITE THEN BLACK ELSE BLACK

\* line 171
SwitchTurn(turn) == IF turn = WHITE THEN BLACK ELSE WHITE

\* a make_move that switches turns before it validates
make_move_switch_first(b, turn, start, end) ==
    LET valid == is_valid_move(b, start, end)
    IN IF valid \notin {"True", "False"}
       THEN [ret |-> valid, board |-> b, current_turn |-> turn]
       ELSE IF valid # "True"
       THEN [ret |-> "False", board |-> b, current_turn |-> SwitchTurn(turn)]
       ELSE [ret |-> "True", board |-> MovePiece(b, start, end),
             current_turn |-> SwitchTurn(turn)]

make_move(b, turn, start, end) ==
    LET valid == is_valid_move(b, start, end)
    IN IF valid \notin {"True", "False"}
       THEN [ret |-> valid, board |-> b, current_turn |-> turn]
       ELSE IF valid # "True"
       THEN [ret |-> "False", board |-> b, current_turn |-> turn]
       ELSE [ret |-> "True", board |-> MovePiece(b, start, end),
             current_turn |-> SwitchTurn(turn)]

-----------------------------------------------------------------------------
(* The board after construction and the calls made on it                   *)

Init ==
    /\ board = _initialize_board
    /\ current_turn = WHITE
    /\ op = "idle"
    /\ start_pos = <<0, 0>>
    /\ end_pos = <<0, 0>>
    /\ ret = "None"
    /\ reads = {}
    /\ nsucc = 0

\* the coordinates the calls of Spec are made with
Starts == Idx \X (0 .. MaxCol)

Ends == (-1 .. N) \X (-1 .. (MaxCol + 1))

MakeMove(start, end) ==
    /\ op = "idle"
    /\ nsucc < MaxMoves
    /\ LET r == make_move(board, current_turn, start, end)
       IN /\ board' = r.board
          /\ current_turn' = r.current_turn
          /\ ret' = r.ret
          /\ nsucc' = IF r.ret = "True" THEN nsucc + 1 ELSE nsucc
    /\ op' = "make_move"
    /\ start_pos' = start
    /\ end_pos' = end
    /\ reads' = {}

IsValidMove(start, end) ==
    /\ op = "idle"
    /\ ret' = is_valid_move(board, start, end)
    /\ op' = "is_valid_move"
    /\ start_pos' = start
    /\ end_pos' = end
    /\ reads' = {}
    /\ UNCHANGED <<board, current_turn, nsucc>>

IsPathClear(start, end) ==
    /\ op = "idle"
    /\ LET r == is_path_clear(board, start, end)
       IN ret' = r.ret /\ reads' = r.reads
    /\ op' = "is_path_clear"
    /\ start_pos' = start
    /\ end_pos' = end
    /\ UNCHANGED <<board, current_turn, nsucc>>

\* the caller has looked at the result of its call and is ready for the next
Return ==
    /\ op # "idle"
    /\ op' = "idle"
    /\ start_pos' = <<0, 0>>
    /\ end_pos' = <<0, 0>>
    /\ ret' = "None"
    /\ reads' = {}
    /\ UNCHANGED <<board, current_turn, nsucc>>

Next ==
    \/ \E start \in Starts, end \in Ends : MakeMove(start, end)
    \/ Return

Spec == Init /\ [][Next]_vars

-----------------------------------------------------------------------------
(* Set-up positions.  `board` is a plain attribute, and the legality       *)
(* predicates and is_path_clear are functions of the grid they are given:  *)
(* SpecBoards applies them to grids a caller has filled in by hand, an     *)
(* empty grid with one piece of any kind on a cell of the corner and at    *)
(* most one more piece beside it.                                          *)

TestCells == (0 .. MaxPos) \X (0 .. MaxPos)

TestEnds == (-1 .. (MaxPos + 1)) \X (-1 .. (MaxPos + 1))

EmptyBoard == [row \in Idx |-> [col \in Idx |-> None]]

Place(b, pos, piece) == [b EXCEPT ![pos[1]][pos[2]] = piece]

OnePieceBoards ==
    {Place(EmptyBoard, pos, Piece(pt, c, hm, 0)) :
        pos \in TestCells, pt \in PieceType, c \in Color, hm \in BOOLEAN}

TwoPieceBoards ==
    UNION {{Place(b, pos, Piece(PAWN, c, FALSE, 1)) :
                pos \in {q \in TestCells : b[q[1]][q[2]] = None}, c \in Color} :
           b \in OnePieceBoards}

InitBoards ==
    /\ board \in OnePieceBoards \cup TwoPieceBoards
    /\ current_turn = WHITE
    /\ op = "idle"
    /\ start_pos = <<0, 0>>
    /\ end_pos = <<0, 0>>
    /\ ret = "None"
    /\ reads = {}
    /\ nsucc = 0

NextBoards ==
    \/ \E start \in TestCells, end \in TestEnds : IsValidMove(start, end)
    \/ \E start \in TestCells, end \in TestEnds \cap Coord : IsPathClear(start, end)
    \/ Return

SpecBoards == InitBoards /\ [][NextBoards]_vars

-----------------------------------------------------------------------------
(* Properties                                                              *)

Cell(b, pos) == b[pos[1]][pos[2]]

Pieces(b) == {pos \in Coord : Cell(b, pos) # None}

RowDelta == end_pos[1] - start_pos[1]

ColDelta == end_pos[2] - start_pos[2]

\* the pawn direction of a colour
Forward(color) == IF color = BLACK THEN 1 ELSE -1

\* the call under way was made with a piece on start_pos and an on-board
\* end_pos that holds no piece of that piece's colour
FreeTarget ==
    /\ Cell(board, start_pos) # None
    /\ _is_within_bounds(end_pos)
    /\ ~(/\ Cell(board, end_pos) # None
         /\ Cell(board, end_pos).color = Cell(board, start_pos).color)

\* C1: a make_move call that returns False leaves all 64 cells (kind, colour
\* and has_moved of every piece) and current_turn as they were before the call.
C1_FailedMoveChangesNothing ==
    [][(op' = "make_move" /\ ret' = "False")
          => (board' = board /\ current_turn' = current_turn)]_vars

\* a make_move call on an occupied start and an on-board end has returned
\* False after an earlier call had succeeded
C1_Witness ==
    /\ op = "make_move"
    /\ ret = "False"
    /\ nsucc = 1
    /\ Cell(board, start_pos) # None
    /\ _is_within_bounds(end_pos)

\* C2: current_turn is WHITE when the number of make_move calls that returned
\* True is even and BLACK when it is odd, whichever colour moved; it is never
\* another value.
C2_TurnFollowsParity ==
    /\ current_turn \in Color
    /\ current_turn = (IF nsucc % 2 = 0 THEN WHITE ELSE BLACK)

\* the second successful move was made by a white piece, as was the turn it
\* was made on, and the turn is WHITE again
C2_Witness ==
    /\ op = "make_move"
    /\ ret = "True"
    /\ nsucc = 2
    /\ Cell(board, end_pos).color = WHITE
    /\ current_turn = WHITE

\* C3: every is_valid_move and make_move call with an on-board start returns
\* a boolean; none ends in an exception.
C3_CallsReturnBool ==
    op \in {"make_move", "is_valid_move"} => ret \in {"True", "False"}

\* the step of a make_move call that returned True
C4_MoveEffect ==
    (op' = "make_move" /\ ret' = "True") =>
        LET piece == Cell(board, start_pos')
            taken == Cell(board, end_pos')
        IN /\ piece # None
           /\ start_pos' # end_pos'
           /\ Cell(board', start_pos') = None
           /\ Cell(board', end_pos') = [piece EXCEPT !.has_moved = TRUE]
           /\ \A q \in Coord \ {start_pos', end_pos'} : Cell(board', q) = Cell(board, q)
           /\ Cardinality(Pieces(board')) =
                  Cardinality(Pieces(board)) - (IF taken # None THEN 1 ELSE 0)
           /\ taken # None => \A q \in Pieces(board') : Cell(board', q).id # taken.id

\* every piece on the board is one of the initial layout, with its kind and
\* colour, and stands on one cell only (stated where the caller is between
\* two calls: a call's result state holds the board of the state that follows)
C4_PiecesInv ==
    op = "idle" => \A p \in Pieces(board) :
        LET x == Cell(board, p)
        IN /\ x.id \in 0 .. (N * N - 1)
           /\ LET home == Cell(_initialize_board, <<x.id \div N, x.id % N>>)
              IN /\ home # None
                 /\ home.piece_type = x.piece_type
                 /\ home.color = x.color
           /\ \A q \in Pieces(board) : q # p => Cell(board, q).id # x.id

\* C4: a make_move call that returns True changes the cells start and end
\* only: start becomes empty, end holds the moved piece with has_moved true,
\* the piece that stood on end is gone and the count of pieces drops by one
\* exactly then; no piece is on two cells and none is new.
C4_MoveRelocatesOnePiece == []C4_PiecesInv /\ [][C4_MoveEffect]_vars

\* a capture has been made: 31 pieces are left and the moved piece is flagged
C4_Witness ==
    /\ op = "make_move"
    /\ ret = "True"
    /\ Cardinality(Pieces(board)) = 31
    /\ Cell(board, end_pos).has_moved

\* C5: for a pawn and an on-board end two rows ahead in its column,
\* is_valid_move returns True exactly when the pawn has not moved and the
\* square between and the destination are both empty, and False otherwise.
C5_PawnDoubleAdvance ==
    (/\ op = "is_valid_move"
     /\ Cell(board, start_pos) # None
     /\ Cell(board, start_pos).piece_type = PAWN
     /\ _is_within_bounds(end_pos)
     /\ ColDelta = 0
     /\ RowDelta = 2 * Forward(Cell(board, start_pos).color))
    => ret = Bool(/\ ~Cell(board, start_pos).has_moved
                  /\ Cell(board, <<start_pos[1] + Forward(Cell(board, start_pos).color),
                                   start_pos[2]>>) = None
                  /\ Cell(board, end_pos) = None)

\* C6: is_valid_move returns False whenever the on-board end holds a piece of
\* the colour of the piece on start, the null move included.
C6_OwnPieceBlocks ==
    (/\ op = "is_valid_move"
     /\ Cell(board, start_pos) # None
     /\ _is_within_bounds(end_pos)
     /\ Cell(board, end_pos) # None
     /\ Cell(board, end_pos).color = Cell(board, start_pos).color)
    => ret = "False"

\* a rook, queen or king was asked to step along its row onto a piece of its
\* own colour and was refused
C6_Witness ==
    /\ op = "is_valid_move"
    /\ start_pos # end_pos
    /\ Cell(board, start_pos) # None
    /\ Cell(board, start_pos).piece_type \in {ROOK, QUEEN, KING}
    /\ RowDelta = 0
    /\ Abs(ColDelta) = 1
    /\ Cell(board, end_pos) # None
    /\ Cell(board, end_pos).color = Cell(board, start_pos).color
    /\ ret = "False"

\* the legality of a move by (dr, dc) in whole numbers
Reference(piece_type, dr, dc) ==
    LET diagonal == Abs(dr) = Abs(dc) /\ dr # 0 /\ dc # 0
        straight == (dr = 0) # (dc = 0)
    IN CASE piece_type = BISHOP -> diagonal
         [] piece_type = ROOK -> straight
         [] piece_type = QUEEN -> straight \/ diagonal
         [] piece_type = KING -> Max(Abs(dr), Abs(dc)) = 1
         [] piece_type = KNIGHT -> {Abs(dr), Abs(dc)} = {1, 2}

\* C7: for a bishop, rook, queen, king or knight and an on-board end without
\* a piece of its colour, the verdict of is_valid_move is that of the
\* whole-number reference on (dr, dc).
C7_SlopeVerdictIsExact ==
    (/\ op = "is_valid_move"
     /\ FreeTarget
     /\ Cell(board, start_pos).piece_type \in {BISHOP, ROOK, QUEEN, KING, KNIGHT})
    => ret = Bool(Reference(Cell(board, start_pos).piece_type, RowDelta, ColDelta))

\* a bishop was allowed a diagonal of two squares, whose quotient is not in
\* lowest terms
C7_Witness ==
    /\ op = "is_valid_move"
    /\ FreeTarget
    /\ Cell(board, start_pos).piece_type = BISHOP
    /\ Abs(RowDelta) = 2
    /\ ret = "True"

\* C8: for a pawn and an on-board end without a piece of its colour that is
\* in another column or one row ahead, is_valid_move returns True iff the end
\* is the empty square straight ahead or an occupied square diagonally ahead.
C8_PawnStepAndCapture ==
    (/\ op = "is_valid_move"
     /\ FreeTarget
     /\ Cell(board, start_pos).piece_type = PAWN
     /\ (ColDelta # 0 \/ RowDelta = Forward(Cell(board, start_pos).color)))
    => ret = Bool(/\ RowDelta = Forward(Cell(board, start_pos).color)
                  /\ \/ ColDelta = 0 /\ Cell(board, end_pos) = None
                     \/ Abs(ColDelta) = 1 /\ Cell(board, end_pos) # None)

\* a pawn was allowed to capture diagonally ahead
C8_Witness ==
    /\ op = "is_valid_move"
    /\ FreeTarget
    /\ Cell(board, start_pos).piece_type = PAWN
    /\ Abs(ColDelta) = 1
    /\ Cell(board, end_pos) # None
    /\ ret = "True"

Colinear(s, e) ==
    s[1] = e[1] \/ s[2] = e[2] \/ Abs(e[1] - s[1]) = Abs(e[2] - s[2])

Min(a, b) == IF a <= b THEN a ELSE b

\* the squares of the segment from s to e, without s and e
Between(s, e) ==
    {q \in (Min(s[1], e[1]) .. Max(s[1], e[1])) \X (Min(s[2], e[2]) .. Max(s[2], e[2])) :
        /\ q # s
        /\ q # e
        /\ (q[1] - s[1]) * (e[2] - s[2]) = (q[2] - s[2]) * (e[1] - s[1])}

\* C9: on a row, column or diagonal (start = end included) is_path_clear
\* ends with a boolean, has read squares strictly between start and end only,
\* and returns True iff all squares strictly between are empty.
C9_PathClearScansBetween ==
    (op = "is_path_clear" /\ Colinear(start_pos, end_pos)) =>
        /\ ret \in {"True", "False"}
        /\ reads \subseteq Between(start_pos, end_pos)
        /\ ret = Bool(\A q \in Between(start_pos, end_pos) : Cell(board, q) = None)

\* a scan that set out from an occupied square was stopped by a piece on the way
C9_Witness ==
    /\ op = "is_path_clear"
    /\ Colinear(start_pos, end_pos)
    /\ Cell(board, start_pos) # None
    /\ reads # {}
    /\ ret = "False"

\* the board b with the squares of `filled` holding a piece of colour c that
\* is none of b's, and the other squares of `cells` empty
Vary(b, cells, filled, c) ==
    [row \in Idx |-> [col \in Idx |->
        IF <<row, col>> \in filled THEN Piece(PAWN, c, FALSE, N * N)
        ELSE IF <<row, col>> \in cells THEN None
        ELSE b[row][col]]]

\* whatever stands between a bishop, rook or queen and a square, the verdict
\* of is_valid_move for that square is the same
C10_BetweenIsIgnored ==
    op = "idle" =>
        \A s \in Pieces(board) :
            Cell(board, s).piece_type \in {BISHOP, ROOK, QUEEN} =>
                \A e \in Coord :
                    LET between == Between(s, e)
                        verdict == is_valid_move(board, s, e)
                    IN \A filled \in SUBSET between : \A c \in Color :
                           is_valid_move(Vary(board, between, filled, c), s, e) = verdict

\* make_move((0,0), (7,0)) on the board as constructed
C10_FreshRookMove ==
    (/\ op = "idle"
     /\ board = _initialize_board
     /\ op' = "make_move"
     /\ start_pos' = <<0, 0>>
     /\ end_pos' = <<7, 0>>)
    => /\ ret' = "True"
       /\ Cell(board', <<0, 0>>) = None
       /\ Cell(board', <<7, 0>>) = [Cell(board, <<0, 0>>) EXCEPT !.has_moved = TRUE]
       /\ Cell(board', <<1, 0>>) = Cell(board, <<1, 0>>)
       /\ Cell(board', <<6, 0>>) = Cell(board, <<6, 0>>)

\* C10: for a bishop, rook or queen the verdict of is_valid_move depends on
\* the cells start and end only, not on the squares between them; on the
\* board as constructed make_move((0,0), (7,0)) returns True and the rook of
\* (0,0) takes the place of the rook of (7,0) over both pawns of column 0.
C10_SlidersPassOverPieces == []C10_BetweenIsIgnored /\ [][C10_FreshRookMove]_vars

\* the white rook of (0,0) has taken the rook of (7,0) as the first move, the
\* pawns of (1,0) and (6,0) standing where they stood
C10_Witness ==
    /\ op = "make_move"
    /\ ret = "True"
    /\ nsucc = 1
    /\ start_pos = <<0, 0>>
    /\ end_pos = <<7, 0>>
    /\ Cell(board, <<7, 0>>).id = NewId(0, 0)
    /\ Cell(board, <<1, 0>>) = Cell(_initialize_board, <<1, 0>>)
    /\ Cell(board, <<6, 0>>) = Cell(_initialize_board, <<6, 0>>)

====
